---- MODULE Spec2Model ----
(***************************************************************************)
(* Model of the fan control engine of tailord (tuxedo-rs):                 *)
(*   tailord/src/fancontrol/mod.rs      FanRuntime: new, run, update_temp, *)
(*                                      set_speed                          *)
(*   tailord/src/fancontrol/runtime.rs  fan_control_loop, suitable_delay   *)
(* The temperature buffer, the profile evaluation and process_suspend are  *)
(* not part of the sources at hand; they are modelled from the design      *)
(* document and marked as such where they are defined.                     *)
(***************************************************************************)
EXTENDS Integers, Sequences, FiniteSets, TLC

VARIABLES
    \* ---- FanRuntime (mod.rs:13-24) and the locals of run / fan_control_loop
    pc,                  \* position of the controller task
    fan_speed,           \* FanRuntime.fan_speed
    temp_history,        \* FanRuntime.temp_history
    profile,             \* FanRuntime.profile (index into Profiles)
    previous_powerclamp, \* local of fan_control_loop: <<>> = None, <<v>> = Some(v)
    speed,               \* local of run: the override speed of the active lease
    lease_elapsed,       \* ms elapsed of the sleep(1000) of the inner select
                         \* (0 outside the override loop, like speed)
    ps_seen,             \* process_suspend future: has it seen the "suspended" transition
    \* ---- environment: device, channels
    hw_speed,            \* the fan speed the device is actually at
    pw_inflight,         \* the submitted, not yet completed power-limit write
    sus_queue,           \* messages of the suspend broadcast not yet received
    sys_suspended,       \* last transition broadcast by the Suspend Coordinator
    override_closed,     \* all senders of the override channel are dropped
    override_left,       \* override messages the senders will still send:
                         \* <<n>>, or <<>> for any number
    \* ---- history variables (observations used by the properties)
    confirmed,           \* last value successfully written to / read from the device
    last_written,        \* <<v>>: last value successfully written to the fan device
    since_override,      \* ms since the last override message was received
    resync_pending,      \* a suspend->resume cycle was broadcast, no read-back yet
    fresh_prof,          \* <<p>>: profile message received, no tick started since
    fan_wr,              \* fan-speed write issued by the last step: <<>> or <<by, value, ok>>
    pow_wr,              \* power-limit write of the last step: <<v>> submitted,
                         \* <<v, ok>> completed, <<>> none
    \* ---- repeated ticks under a constant target (SpecRamp)
    ramp_start, ramp_tgt, ramp_cur, ramp_prev, ramp_ticks,
    \* ---- the cadence policy (SpecDelay)
    d_buf, d_fan_diff, d_delay, d_prev,
    \* ---- the smoothed temperature of a tick (SpecSmooth)
    s_buf,               \* the temperature history
    s_profile,           \* the profile (index into Profiles)
    s_read,              \* the reading of the last tick: <<temp>>, <<>> = failed or none
    s_target,            \* <<target_fan_speed>> of the last tick, <<>> = no tick yet
    s_base,              \* <<T>>: the window held only T, no K readings above T
                         \* in a row since; <<>> otherwise
    s_run                \* readings above T in a row up to the last tick

ctlVars == <<pc, fan_speed, temp_history, profile, previous_powerclamp, speed,
             lease_elapsed, ps_seen>>
envVars == <<hw_speed, pw_inflight, sus_queue, sys_suspended, override_closed>>
sendVars == <<override_left>>
obsVars == <<confirmed, last_written, since_override, resync_pending, fresh_prof,
             fan_wr, pow_wr>>
rampVars == <<ramp_start, ramp_tgt, ramp_cur, ramp_prev, ramp_ticks>>
delayVars == <<d_buf, d_fan_diff, d_delay, d_prev>>
smoothVars == <<s_buf, s_profile, s_read, s_target, s_base, s_run>>
vars == <<ctlVars, envVars, sendVars, obsVars, rampVars, delayVars, smoothVars>>

----------------------------------------------------------------------------
(* Bounds of the model *)

\* capacity K of the temperature history buffer
HistoryLen == 2
\* messages the suspend broadcast holds for the controller
MaxSusQueue == 2
\* override messages sent in a run that is followed until the fan has settled
MaxOverrideMsgs == 2
\* steps the clock takes through one lease window
LeaseSteps == 2
\* ticks a ramp is followed for
MaxRampTicks == 36
\* largest fan_diff handed to the cadence policy beyond the saturating ones
MaxFanDiff == 34

\* temperatures the sensor reports
Temps == {40, 70}
\* temperatures read while the smoothing is followed: below, at and above
\* the breakpoints of the profiles
SmoothTemps == {35, 40, 70, 75}
\* temperatures held by the buffers handed to the cadence policy
DelayTemps == {20, 21, 27}
\* speeds the firmware leaves the fan at (construction, resume)
HwSpeeds == {20, 23}
\* speeds requested by override messages
OverrideSpeeds == {21, 24}

----------------------------------------------------------------------------
(* Program constants *)

MaxPercent == 100
U8Max == 255
LeaseMs == 1000
\* the step of the clock
TimeStep == LeaseMs \div LeaseSteps
MaxPressure == 15
BaseDelayMs == 2000
TauDen == 7

Min2(a, b) == IF a < b THEN a ELSE b
Max2(a, b) == IF a > b THEN a ELSE b
abs_diff(a, b) == IF a > b THEN a - b ELSE b - a
saturating_add(a, b) == Min2(a + b, U8Max)
saturating_sub(a, b) == Max2(a - b, 0)

----------------------------------------------------------------------------
(* The step computation of fan_control_loop, runtime.rs:47-64 *)

\* fan_increment with the clamp of runtime.rs:55-57 left out
fan_increment_unclamped(cur, tgt) ==
    (abs_diff(cur, tgt) \div 4) + (tgt \div 50)

\* runtime.rs:48,54-57
fan_increment(cur, tgt) ==
    LET inc == (abs_diff(cur, tgt) \div 4) + (tgt \div 50)
    IN  IF tgt > cur THEN Max2(Min2(inc, 3), 1) ELSE inc

\* the same, with the cap at 100 of runtime.rs:61 left out
new_speed_uncapped(cur, tgt) ==
    IF tgt > cur
    THEN saturating_add(cur, fan_increment(cur, tgt))
    ELSE saturating_sub(cur, fan_increment(cur, tgt))

\* runtime.rs:60-64, the argument of set_speed
new_speed(cur, tgt) ==
    IF tgt > cur
    THEN Min2(saturating_add(cur, fan_increment(cur, tgt)), MaxPercent)
    ELSE saturating_sub(cur, fan_increment(cur, tgt))

----------------------------------------------------------------------------
(* Temperature History Buffer (fancontrol/buffer.rs is not among the sources; *)
(* modelled from the design document, sections 3 and 4.1)                     *)

\* TemperatureBuffer::new: seeded with the first reading
buffer_new(temp) == <<temp>>

\* TemperatureBuffer::update: push, evicting the oldest at capacity
buffer_update(buf, temp) ==
    IF Len(buf) < HistoryLen THEN Append(buf, temp) ELSE Append(Tail(buf), temp)

\* TemperatureBuffer::get_latest
get_latest(buf) == buf[Len(buf)]

\* the same, taking the latest sample for the apparent temperature
buffer_min_latest(buf) == buf[Len(buf)]

\* temp_history.iter().min(), runtime.rs:45
buffer_min(buf) ==
    CHOOSE m \in {buf[i] : i \in 1..Len(buf)} : \A i \in 1..Len(buf) : m <= buf[i]

\* TemperatureBuffer::diff_to_min_in_history: how far the latest sample is
\* above the minimum of the window
diff_to_min_in_history(buf) == get_latest(buf) - buffer_min(buf)

----------------------------------------------------------------------------
(* Fan Profile (fancontrol/profile.rs is not among the sources; the points   *)
(* are tailor_api FanProfilePoint, the evaluation is modelled from the       *)
(* design document, section 4.2: step to the nearest lower breakpoint,       *)
(* clamped at both ends of the table)                                        *)

\* tailor_api/src/fan.rs:2-8
FanProfilePoint(t, f, p) == [temp |-> t, fan |-> f, power_limit |-> p]

\* the profiles the external loader delivers, points sorted by temperature
Profiles == <<
    <<FanProfilePoint(40, 20, 0), FanProfilePoint(70, 24, 2)>>,
    <<FanProfilePoint(40, 22, 0), FanProfilePoint(70, 22, 1)>> >>

ProfileIds == 1..Len(Profiles)

\* the point a temperature is evaluated at
profile_point(p, temp) ==
    LET pts == Profiles[p]
        below == {i \in 1..Len(pts) : pts[i].temp <= temp}
    IN  IF below = {} THEN pts[1]
        ELSE pts[CHOOSE i \in below : \A j \in below : j <= i]

\* FanProfile::calc_target_fan_speed
calc_target_fan_speed(p, temp) == profile_point(p, temp).fan

\* FanProfile::calc_target_power_limit
calc_target_power_limit(p, temp) == profile_point(p, temp).power_limit

----------------------------------------------------------------------------
(* Polling cadence policy, runtime.rs:93-114 *)

\* 2000.0 * (pressure * TAU).exp() as u64, runtime.rs:111-113.  exp(p/7) is
\* summed as its power series in fixed point (scale 10^6, 24 terms), which
\* agrees with the f64 result after truncation for every pressure 0..40.
RECURSIVE exp_series(_, _, _, _)
exp_series(p, k, term, acc) ==
    IF k > 24 THEN acc
    ELSE LET t == (term * p) \div (TauDen * k)
         IN  exp_series(p, k + 1, t, acc + t)

\* delay_of_pressure falling in a straight line from 2000 ms to 234 ms
delay_linear(p) == BaseDelayMs - ((p * (BaseDelayMs - 234)) \div MaxPressure)

delay_of_pressure(p) ==
    (BaseDelayMs * 1000000) \div exp_series(p, 1, 1000000, 1000000)

\* runtime.rs:96-104
pressure_of(buf, fan_diff) ==
    Min2(saturating_add(diff_to_min_in_history(buf), fan_diff \div 2), MaxPressure)

\* runtime.rs:94-114, in ms
suitable_delay(buf, fan_diff) == delay_of_pressure(pressure_of(buf, fan_diff))

----------------------------------------------------------------------------
(* The controller task: FanRuntime::run (mod.rs:45-79) around             *)
(* fan_control_loop (runtime.rs:38-90)                                     *)
(*                                                                         *)
(* pc is the await point the task is parked at:                            *)
(*   "open"     rw_file(..).await, runtime.rs:39                           *)
(*   "tick"     head of the loop of fan_control_loop, runtime.rs:42        *)
(*   "pwrite"   write_int(..).await, runtime.rs:69                         *)
(*   "wait"     the select of sleep / process_suspend, runtime.rs:83       *)
(*   "override" the inner select of the override loop, mod.rs:65           *)
(*   "panicked" an unwrap() hit an Err                                     *)

\* the await points of fan_control_loop at which the outer select of run can
\* complete another branch and drop the fan_control_loop future
InControlLoop == pc \in {"open", "pwrite", "wait"}

IdleRamp == ramp_start = 0 /\ ramp_tgt = 0 /\ ramp_cur = 0 /\ ramp_prev = 0
            /\ ramp_ticks = 0
IdleDelay == d_buf = <<>> /\ d_fan_diff = 0 /\ d_delay = 0 /\ d_prev = <<>>
IdleSmooth == s_buf = <<>> /\ s_profile = 1 /\ s_read = <<>> /\ s_target = <<>>
              /\ s_base = <<>> /\ s_run = 0

\* FanRuntime::new, mod.rs:28-43, and the first poll of run
InitRun ==
    /\ pc = "open"
    /\ hw_speed \in HwSpeeds
    /\ fan_speed = hw_speed
    /\ \E t \in Temps : temp_history = buffer_new(t)
    /\ profile = 1
    /\ previous_powerclamp = <<>>
    /\ speed = 0
    /\ lease_elapsed = 0
    /\ ps_seen = FALSE
    /\ pw_inflight = <<>>
    /\ sus_queue = <<>>
    /\ sys_suspended = FALSE
    /\ override_closed = FALSE
    /\ confirmed = hw_speed
    /\ last_written = <<>>
    /\ since_override = 0
    /\ resync_pending = FALSE
    /\ fresh_prof = <<>>
    /\ fan_wr = <<>>
    /\ pow_wr = <<>>
    /\ IdleRamp
    /\ IdleDelay
    /\ IdleSmooth

\* the same, with senders that may send any number of override messages
Init == InitRun /\ override_left = <<>>

\* what a step shows of itself
Observe(fw, pw) == fan_wr' = fw /\ pow_wr' = pw

\* io.device.set_fan_speed_percent(0, v): the device and the records of it
DeviceWrite(v, ok) ==
    /\ hw_speed' = IF ok THEN v ELSE hw_speed
    /\ last_written' = IF ok THEN <<v>> ELSE last_written
    /\ confirmed' = IF ok THEN v ELSE confirmed

\* the same, with the locals of fan_control_loop outliving the future
DropControlLoop_keeps_locals ==
    /\ UNCHANGED previous_powerclamp
    /\ ps_seen' = FALSE
    /\ pw_inflight' = <<>>

\* dropping the fan_control_loop future: its locals are gone, a submitted
\* power-limit write is no longer awaited
DropControlLoop ==
    /\ previous_powerclamp' = <<>>
    /\ ps_seen' = FALSE
    /\ pw_inflight' = <<>>

\* runtime.rs:39-40, the handle opens
OpenOk ==
    /\ pc = "open"
    /\ pc' = "tick"
    /\ previous_powerclamp' = <<>>
    /\ Observe(<<>>, <<>>)
    /\ UNCHANGED <<fan_speed, temp_history, profile, speed, lease_elapsed, ps_seen>>
    /\ UNCHANGED envVars
    /\ UNCHANGED <<confirmed, last_written, since_override, resync_pending,
                   fresh_prof>>
    /\ UNCHANGED <<sendVars, rampVars, delayVars, smoothVars>>

\* runtime.rs:39, unwrap() of a failed open
OpenFail ==
    /\ pc = "open"
    /\ pc' = "panicked"
    /\ Observe(<<>>, <<>>)
    /\ UNCHANGED <<fan_speed, temp_history, profile, previous_powerclamp, speed,
                   lease_elapsed, ps_seen>>
    /\ UNCHANGED envVars
    /\ UNCHANGED <<confirmed, last_written, since_override, resync_pending,
                   fresh_prof>>
    /\ UNCHANGED <<sendVars, rampVars, delayVars, smoothVars>>

\* FanRuntime::set_speed, mod.rs:97-104; write_ok is the outcome of
\* set_fan_speed_percent if it is called
set_speed(new, write_ok) ==
    IF fan_speed # new
    THEN /\ fan_speed' = new
         /\ DeviceWrite(new, write_ok)
         /\ fan_wr' = <<"tick", new, write_ok>>
    ELSE /\ UNCHANGED <<fan_speed, hw_speed, last_written, confirmed>>
         /\ fan_wr' = <<>>

\* FanRuntime::update_temp, mod.rs:83-94, on a history hist:
\* <<the history afterwards, the temperature returned>>
update_temp(hist, read_ok, temp) ==
    IF read_ok THEN <<buffer_update(hist, temp), temp>>
    ELSE <<hist, get_latest(hist)>>

\* One tick, runtime.rs:44-69 up to the await of the power-limit write:
\* update_temp (mod.rs:83-94), the step computation, set_speed
\* (mod.rs:97-104) and the submission of the power-limit write.
\*   read_ok, temp : outcome of get_fan_temperature
\*   write_ok      : outcome of set_fan_speed_percent, if it is called
Tick(read_ok, temp, write_ok) ==
    /\ pc = "tick"
    /\ LET hist == update_temp(temp_history, read_ok, temp)[1]
           act_current_temp == update_temp(temp_history, read_ok, temp)[2]
           current_temp == buffer_min(hist)
           target_fan_speed == calc_target_fan_speed(profile, current_temp)
           new == new_speed(fan_speed, target_fan_speed)
           target_power_limit == calc_target_power_limit(profile, act_current_temp)
           clamp_differs == previous_powerclamp # <<target_power_limit>>
       IN  /\ temp_history' = hist
           /\ set_speed(new, write_ok)
           /\ IF clamp_differs
              THEN /\ pw_inflight' = <<target_power_limit>>
                   /\ pow_wr' = <<target_power_limit>>
                   /\ pc' = "pwrite"
              ELSE /\ pw_inflight' = <<>>
                   /\ pow_wr' = <<>>
                   /\ pc' = "wait"
    /\ ps_seen' = FALSE
    /\ fresh_prof' = <<>>
    /\ UNCHANGED <<profile, previous_powerclamp, speed, lease_elapsed>>
    /\ UNCHANGED <<sus_queue, sys_suspended, override_closed>>
    /\ UNCHANGED <<since_override, resync_pending>>
    /\ UNCHANGED <<sendVars, rampVars, delayVars, smoothVars>>

\* runtime.rs:69-73: the power-limit write completes; previous_powerclamp is
\* set whether or not it succeeded
PowerWriteDone(ok) ==
    /\ pc = "pwrite"
    /\ previous_powerclamp' = pw_inflight
    /\ pw_inflight' = <<>>
    /\ pc' = "wait"
    /\ ps_seen' = FALSE
    /\ Observe(<<>>, <<pw_inflight[1], ok>>)
    /\ UNCHANGED <<fan_speed, temp_history, profile, speed, lease_elapsed>>
    /\ UNCHANGED <<hw_speed, sus_queue, sys_suspended, override_closed>>
    /\ UNCHANGED <<confirmed, last_written, since_override, resync_pending,
                   fresh_prof>>
    /\ UNCHANGED <<sendVars, rampVars, delayVars, smoothVars>>

\* runtime.rs:84: the sleep of the tick elapses first; the process_suspend
\* future of this wait is dropped with what it had seen
SleepElapsed ==
    /\ pc = "wait"
    /\ pc' = "tick"
    /\ ps_seen' = FALSE
    /\ Observe(<<>>, <<>>)
    /\ UNCHANGED <<fan_speed, temp_history, profile, previous_powerclamp, speed,
                   lease_elapsed>>
    /\ UNCHANGED envVars
    /\ UNCHANGED <<confirmed, last_written, since_override, resync_pending,
                   fresh_prof>>
    /\ UNCHANGED <<sendVars, rampVars, delayVars, smoothVars>>

\* crate::suspend::process_suspend is not among the sources; modelled from
\* the design document, section 4.5: it returns once it has received a
\* "suspended" transition followed by a "resumed" one.
\* The result of feeding it one message: <<seen', returns>>
process_suspend(seen, msg) == <<seen \/ msg, seen /\ ~msg>>

\* runtime.rs:85, process_suspend receives a message and keeps waiting
SuspendRecv ==
    /\ pc = "wait"
    /\ sus_queue # <<>>
    /\ ~process_suspend(ps_seen, Head(sus_queue))[2]
    /\ ps_seen' = process_suspend(ps_seen, Head(sus_queue))[1]
    /\ sus_queue' = Tail(sus_queue)
    /\ Observe(<<>>, <<>>)
    /\ UNCHANGED <<pc, fan_speed, temp_history, profile, previous_powerclamp, speed,
                   lease_elapsed>>
    /\ UNCHANGED <<hw_speed, pw_inflight, sys_suspended, override_closed>>
    /\ UNCHANGED <<confirmed, last_written, since_override, resync_pending,
                   fresh_prof>>
    /\ UNCHANGED <<sendVars, rampVars, delayVars, smoothVars>>

\* runtime.rs:85-87, process_suspend returns and the speed is read back;
\* read_ok is the outcome of get_fan_speed_percent, unwrap()ed
ResumeReadBack(read_ok) ==
    /\ pc = "wait"
    /\ sus_queue # <<>>
    /\ process_suspend(ps_seen, Head(sus_queue))[2]
    /\ sus_queue' = Tail(sus_queue)
    /\ ps_seen' = FALSE
    /\ IF read_ok
       THEN /\ fan_speed' = hw_speed
            /\ confirmed' = hw_speed
            /\ resync_pending' = FALSE
            /\ pc' = "tick"
       ELSE /\ pc' = "panicked"
            /\ UNCHANGED <<fan_speed, confirmed, resync_pending>>
    /\ Observe(<<>>, <<>>)
    /\ UNCHANGED <<temp_history, profile, previous_powerclamp, speed, lease_elapsed>>
    /\ UNCHANGED <<hw_speed, pw_inflight, sys_suspended, override_closed>>
    /\ UNCHANGED <<last_written, since_override, fresh_prof>>
    /\ UNCHANGED <<sendVars, rampVars, delayVars, smoothVars>>

\* RecvProfile with the received profile not stored
RecvProfile_dropped(config) ==
    /\ InControlLoop
    /\ profile' = profile
    /\ fresh_prof' = <<config>>
    /\ pc' = "open"
    /\ DropControlLoop
    /\ Observe(<<>>, <<>>)
    /\ UNCHANGED <<fan_speed, temp_history, speed, lease_elapsed>>
    /\ UNCHANGED <<hw_speed, sus_queue, sys_suspended, override_closed>>
    /\ UNCHANGED <<confirmed, last_written, since_override, resync_pending>>
    /\ UNCHANGED <<sendVars, rampVars, delayVars, smoothVars>>

\* mod.rs:52-56: a profile arrives; the fan_control_loop future is dropped and
\* the next iteration of the outer loop starts it anew
RecvProfile(config) ==
    /\ InControlLoop
    /\ profile' = config
    /\ fresh_prof' = <<config>>
    /\ pc' = "open"
    /\ DropControlLoop
    /\ Observe(<<>>, <<>>)
    /\ UNCHANGED <<fan_speed, temp_history, speed, lease_elapsed>>
    /\ UNCHANGED <<hw_speed, sus_queue, sys_suspended, override_closed>>
    /\ UNCHANGED <<confirmed, last_written, since_override, resync_pending>>
    /\ UNCHANGED <<sendVars, rampVars, delayVars, smoothVars>>

\* the same, with the failure of the write only logged
OverrideWrite_keeps_lease(v, write_ok) ==
    /\ DeviceWrite(v, write_ok)
    /\ fan_wr' = <<"override", v, write_ok>>
    /\ pc' = "override"
    /\ speed' = v
    /\ lease_elapsed' = 0

\* mod.rs:61-64 and 73: the write at the head of the override loop; on
\* failure the loop is left and the outer loop starts fan_control_loop anew
OverrideWrite(v, write_ok) ==
    /\ DeviceWrite(v, write_ok)
    /\ fan_wr' = <<"override", v, write_ok>>
    /\ pc' = IF write_ok THEN "override" ELSE "open"
    /\ speed' = IF write_ok THEN v ELSE 0
    /\ lease_elapsed' = 0

\* a sender of the override channel sends one of the messages it has left
SendOverride ==
    /\ override_left # <<0>>
    /\ override_left' = IF override_left = <<>> THEN <<>>
                        ELSE <<override_left[1] - 1>>

\* mod.rs:58-64: an override message arrives while fan_control_loop runs
RecvOverride(s, write_ok) ==
    /\ InControlLoop
    /\ ~override_closed
    /\ SendOverride
    /\ since_override' = 0
    /\ OverrideWrite(s, write_ok)
    /\ DropControlLoop
    /\ pow_wr' = <<>>
    /\ UNCHANGED <<fan_speed, temp_history, profile>>
    /\ UNCHANGED <<sus_queue, sys_suspended, override_closed>>
    /\ UNCHANGED <<resync_pending, fresh_prof>>
    /\ UNCHANGED <<rampVars, delayVars, smoothVars>>

\* mod.rs:58-59 with recv() returning None: the override channel is closed;
\* the branch completes at once and the outer loop starts over
RecvOverrideNone ==
    /\ InControlLoop
    /\ override_closed
    /\ pc' = "open"
    /\ DropControlLoop
    /\ Observe(<<>>, <<>>)
    /\ UNCHANGED <<fan_speed, temp_history, profile, speed, lease_elapsed>>
    /\ UNCHANGED <<hw_speed, sus_queue, sys_suspended, override_closed>>
    /\ UNCHANGED <<confirmed, last_written, since_override, resync_pending,
                   fresh_prof>>
    /\ UNCHANGED <<sendVars, rampVars, delayVars, smoothVars>>

\* mod.rs:66-70 then 61: a further override message refreshes the lease
LeaseRefresh(new_speed_msg, write_ok) ==
    /\ pc = "override"
    /\ ~override_closed
    /\ SendOverride
    /\ since_override' = 0
    /\ OverrideWrite(new_speed_msg, write_ok)
    /\ pow_wr' = <<>>
    /\ UNCHANGED <<fan_speed, temp_history, profile, previous_powerclamp, ps_seen>>
    /\ UNCHANGED <<pw_inflight, sus_queue, sys_suspended, override_closed>>
    /\ UNCHANGED <<resync_pending, fresh_prof>>
    /\ UNCHANGED <<rampVars, delayVars, smoothVars>>

\* the same, with the speed of the lease lost when recv() returns None
LeaseRecvNone_default(write_ok) ==
    /\ pc = "override"
    /\ override_closed
    /\ OverrideWrite(0, write_ok)
    /\ since_override' = IF write_ok THEN since_override ELSE 0
    /\ pow_wr' = <<>>
    /\ UNCHANGED <<fan_speed, temp_history, profile, previous_powerclamp, ps_seen>>
    /\ UNCHANGED <<pw_inflight, sus_queue, sys_suspended, override_closed>>
    /\ UNCHANGED <<resync_pending, fresh_prof>>
    /\ UNCHANGED <<sendVars, rampVars, delayVars, smoothVars>>

\* mod.rs:66-70 with recv() returning None, then 61: the channel is closed,
\* speed is kept, the loop goes round and starts a new sleep
LeaseRecvNone(write_ok) ==
    /\ pc = "override"
    /\ override_closed
    /\ OverrideWrite(speed, write_ok)
    /\ since_override' = IF write_ok THEN since_override ELSE 0
    /\ pow_wr' = <<>>
    /\ UNCHANGED <<fan_speed, temp_history, profile, previous_powerclamp, ps_seen>>
    /\ UNCHANGED <<pw_inflight, sus_queue, sys_suspended, override_closed>>
    /\ UNCHANGED <<resync_pending, fresh_prof>>
    /\ UNCHANGED <<sendVars, rampVars, delayVars, smoothVars>>

\* time passes while the inner select waits
LeaseAdvance ==
    /\ pc = "override"
    /\ lease_elapsed < LeaseMs
    /\ lease_elapsed' = Min2(lease_elapsed + TimeStep, LeaseMs)
    /\ since_override' = Min2(since_override + TimeStep, LeaseMs + TimeStep)
    /\ Observe(<<>>, <<>>)
    /\ UNCHANGED <<pc, fan_speed, temp_history, profile, previous_powerclamp, speed,
                   ps_seen>>
    /\ UNCHANGED envVars
    /\ UNCHANGED <<confirmed, last_written, resync_pending, fresh_prof>>
    /\ UNCHANGED <<sendVars, rampVars, delayVars, smoothVars>>

\* mod.rs:71: the sleep of the inner select elapses.  On a closed channel
\* recv() is ready whenever the select is polled, and every round of the loop
\* starts a new sleep, so the sleep branch is never the one to complete.
LeaseExpire ==
    /\ pc = "override"
    /\ lease_elapsed >= LeaseMs
    /\ ~override_closed
    /\ pc' = "open"
    /\ lease_elapsed' = 0
    /\ speed' = 0
    /\ since_override' = 0
    /\ Observe(<<>>, <<>>)
    /\ UNCHANGED <<fan_speed, temp_history, profile, previous_powerclamp, ps_seen>>
    /\ UNCHANGED envVars
    /\ UNCHANGED <<confirmed, last_written, resync_pending, fresh_prof>>
    /\ UNCHANGED <<sendVars, rampVars, delayVars, smoothVars>>

----------------------------------------------------------------------------
(* The environment.  The synchronous stretch from the head of the loop to  *)
(* the next await takes no time: nothing arrives while pc = "tick".         *)

\* the Suspend Coordinator broadcasts "suspended"
SuspendSignal ==
    /\ pc \notin {"tick", "panicked"}
    /\ ~sys_suspended
    /\ Len(sus_queue) < MaxSusQueue
    /\ sus_queue' = Append(sus_queue, TRUE)
    /\ sys_suspended' = TRUE
    /\ Observe(<<>>, <<>>)
    /\ UNCHANGED ctlVars
    /\ UNCHANGED <<hw_speed, pw_inflight, override_closed>>
    /\ UNCHANGED <<confirmed, last_written, since_override, resync_pending,
                   fresh_prof>>
    /\ UNCHANGED <<sendVars, rampVars, delayVars, smoothVars>>

\* the Suspend Coordinator broadcasts "resumed"; the firmware may have left
\* the fan at another speed
ResumeSignal(h) ==
    /\ pc \notin {"tick", "panicked"}
    /\ sys_suspended
    /\ Len(sus_queue) < MaxSusQueue
    /\ sus_queue' = Append(sus_queue, FALSE)
    /\ sys_suspended' = FALSE
    /\ hw_speed' = h
    /\ resync_pending' = TRUE
    /\ Observe(<<>>, <<>>)
    /\ UNCHANGED ctlVars
    /\ UNCHANGED <<pw_inflight, override_closed>>
    /\ UNCHANGED <<confirmed, last_written, since_override, fresh_prof>>
    /\ UNCHANGED <<sendVars, rampVars, delayVars, smoothVars>>

\* the last sender of the override channel is dropped
CloseOverride ==
    /\ pc \notin {"tick", "panicked"}
    /\ ~override_closed
    /\ override_closed' = TRUE
    /\ Observe(<<>>, <<>>)
    /\ UNCHANGED ctlVars
    /\ UNCHANGED <<hw_speed, pw_inflight, sus_queue, sys_suspended>>
    /\ UNCHANGED <<confirmed, last_written, since_override, resync_pending,
                   fresh_prof>>
    /\ UNCHANGED <<sendVars, rampVars, delayVars, smoothVars>>

Next ==
    \/ OpenOk
    \/ OpenFail
    \/ \E read_ok \in BOOLEAN, temp \in Temps, write_ok \in BOOLEAN :
          Tick(read_ok, temp, write_ok)
    \/ \E ok \in BOOLEAN : PowerWriteDone(ok)
    \/ SleepElapsed
    \/ SuspendRecv
    \/ \E read_ok \in BOOLEAN : ResumeReadBack(read_ok)
    \/ \E config \in ProfileIds : RecvProfile(config)
    \/ \E s \in OverrideSpeeds, write_ok \in BOOLEAN :
          RecvOverride(s, write_ok)
    \/ RecvOverrideNone
    \/ \E s \in OverrideSpeeds, write_ok \in BOOLEAN : LeaseRefresh(s, write_ok)
    \/ \E write_ok \in BOOLEAN : LeaseRecvNone(write_ok)
    \/ LeaseAdvance
    \/ LeaseExpire
    \/ SuspendSignal
    \/ \E h \in HwSpeeds : ResumeSignal(h)
    \/ CloseOverride

Spec == Init /\ [][Next]_vars

----------------------------------------------------------------------------
(* Repeated ticks under a constant target: the step computation of          *)
(* runtime.rs:47-64 applied to its own result, from every pair of a start   *)
(* speed and a target                                                       *)

\* the controller is not part of this specification
Parked ==
    /\ pc = "parked"
    /\ fan_speed = 0
    /\ temp_history = <<>>
    /\ profile = 1
    /\ previous_powerclamp = <<>>
    /\ speed = 0
    /\ lease_elapsed = 0
    /\ ps_seen = FALSE
    /\ hw_speed = 0
    /\ pw_inflight = <<>>
    /\ sus_queue = <<>>
    /\ sys_suspended = FALSE
    /\ override_closed = FALSE
    /\ override_left = <<>>
    /\ confirmed = 0
    /\ last_written = <<>>
    /\ since_override = 0
    /\ resync_pending = FALSE
    /\ fresh_prof = <<>>
    /\ fan_wr = <<>>
    /\ pow_wr = <<>>

InitRamp ==
    /\ Parked
    /\ IdleDelay
    /\ IdleSmooth
    /\ ramp_start \in 0..MaxPercent
    /\ ramp_tgt \in 0..MaxPercent
    /\ ramp_cur = ramp_start
    /\ ramp_prev = ramp_start
    /\ ramp_ticks = 0

\* one tick: fan_speed becomes the argument of set_speed (mod.rs:99)
RampTick ==
    /\ ramp_ticks < MaxRampTicks
    /\ ramp_cur' = new_speed(ramp_cur, ramp_tgt)
    /\ ramp_prev' = ramp_cur
    /\ ramp_ticks' = ramp_ticks + 1
    /\ UNCHANGED <<ramp_start, ramp_tgt>>
    /\ UNCHANGED <<ctlVars, envVars, sendVars, obsVars, delayVars, smoothVars>>

NextRamp == RampTick

SpecRamp == InitRamp /\ [][NextRamp]_vars

----------------------------------------------------------------------------
(* The cadence policy applied to buffers and fan_diffs (the policy is not   *)
(* called by the tick, runtime.rs:75-76; it is exercised as by its test,    *)
(* runtime.rs:122-138)                                                      *)

\* fan_diff is a u8: the small ones and the saturating one
FanDiffs == (0..MaxFanDiff) \cup {U8Max}

\* the pressure as the design document defines it
DocPressure(buf, fan_diff) ==
    Min2(15, diff_to_min_in_history(buf) + (fan_diff \div 2))

InitDelay ==
    /\ Parked
    /\ IdleRamp
    /\ IdleSmooth
    /\ \E t \in DelayTemps : d_buf = buffer_new(t)
    /\ d_fan_diff \in FanDiffs
    /\ d_delay = 0
    /\ d_prev = <<>>

\* suitable_delay(&temp_buffer, fan_diff).as_millis()
ComputeDelay ==
    /\ d_delay = 0
    /\ d_delay' = suitable_delay(d_buf, d_fan_diff)
    /\ UNCHANGED <<d_buf, d_fan_diff, d_prev>>
    /\ UNCHANGED <<ctlVars, envVars, sendVars, obsVars, rampVars, smoothVars>>

\* the next evaluation: another sample in the buffer (or the same buffer)
\* and another fan_diff; the last result is kept for comparison
NextInput(push, t, fd) ==
    /\ d_delay # 0
    /\ d_prev' = <<DocPressure(d_buf, d_fan_diff), d_delay>>
    /\ d_buf' = IF push THEN buffer_update(d_buf, t) ELSE d_buf
    /\ d_fan_diff' = fd
    /\ d_delay' = 0
    /\ UNCHANGED <<ctlVars, envVars, sendVars, obsVars, rampVars, smoothVars>>

NextDelay ==
    \/ ComputeDelay
    \/ \E push \in BOOLEAN, t \in DelayTemps, fd \in FanDiffs : NextInput(push, t, fd)

SpecDelay == InitDelay /\ [][NextDelay]_vars

----------------------------------------------------------------------------
(* Properties *)

\* the step is a Normal tick (runtime.rs:44-69)
TickStep == pc = "tick" /\ pc' \in {"pwrite", "wait"}

\* C1: in every reachable state the cached fan percentage equals the last
\* value successfully written to the fan device, or the value read back after
\* the most recent resume if that is later.
C1_Original == pc # "panicked" => fan_speed = confirmed

\* C2: when the fan-speed write issued by a Normal tick fails, the tracked
\* last-written fan speed is left unchanged by that tick.
C2_Original ==
    [][(TickStep /\ fan_wr' # <<>> /\ ~fan_wr'[3]) => fan_speed' = fan_speed]_vars

RECURSIVE ticks_to_target(_, _, _)
ticks_to_target(cur, tgt, fuel) ==
    IF cur = tgt \/ fuel = 0 THEN 0
    ELSE 1 + ticks_to_target(new_speed(cur, tgt), tgt, fuel - 1)

\* ticks of the ramp from 0 up to 100
RampUpTicks == ticks_to_target(0, MaxPercent, MaxRampTicks)

\* C4: from speed 100 with a constant target 0 the speed reaches 0 in fewer
\* ticks than the ramp from 0 up to 100 takes: once the ramp down has run for
\* one tick less than the ramp up, it is at 0.
C4_Original ==
    (ramp_start = MaxPercent /\ ramp_tgt = 0 /\ ramp_ticks >= RampUpTicks - 1)
        => ramp_cur = 0

\* C4 as amended: from speed 100 with a constant target 0 the speed falls to 3
\* in 14 ticks and stays there (within 3 points of a target below 50 the
\* increment is 0, so 0 is not reached); the ramp from 0 up to 100 under a
\* constant target 100 first reaches 100 at its 34th tick.
C4_RampDown ==
    /\ (ramp_start = MaxPercent /\ ramp_tgt = 0)
          => /\ ramp_ticks >= 14 => ramp_cur = 3
             /\ ramp_ticks < 14 => ramp_cur > 3
    /\ (ramp_start = 0 /\ ramp_tgt = MaxPercent)
          => /\ ramp_ticks < 34 => ramp_cur < MaxPercent
             /\ ramp_ticks = 34 => ramp_cur = MaxPercent

\* the ramp down has run for as long as the ramp up takes and rests at 3
C4_Witness ==
    ramp_start = MaxPercent /\ ramp_tgt = 0 /\ ramp_ticks = 34 /\ ramp_cur = 3
    /\ ramp_prev = 3

\* C5: no Normal tick writes to the fan device a value equal to the value most
\* recently written to it, whether that write came from a tick or an override.
C5_Original ==
    [][(TickStep /\ fan_wr' # <<>>) => <<fan_wr'[2]>> # last_written]_vars

\* C6: once Overridden, the controller returns to Normal exactly when one
\* lease window has elapsed since the last received override message (a
\* failed device write aside): it is never still Overridden later than that,
\* and the lease never ends on its own earlier.  This is to hold for every
\* outcome of receiving on the override channel.
C6_Original ==
    /\ [](pc = "override" => since_override <= LeaseMs)
    /\ [][(pc = "override" /\ pc' # "override" /\ fan_wr' = <<>>)
            => since_override = LeaseMs]_vars

\* C7: after a suspend->resume cycle was broadcast, the cached speed is set
\* from the hardware before the next Normal tick computes a new speed from it.
C7_Original == [][TickStep => ~resync_pending]_vars

\* C8: a profile message never changes the profile of a tick in progress: the
\* profile changes only while the tick routine is parked at an await, which
\* restarts the routine; every tick computes its fan speed and its power limit
\* from one and the same profile and issues the writes they call for; the
\* first tick after a message was received uses the profile of that message.
C8_ProfileSwap ==
    /\ [][profile' # profile
            => (InControlLoop /\ pc' = "open" /\ fresh_prof' = <<profile'>>)]_vars
    /\ [][TickStep =>
            \E p \in ProfileIds :
                /\ fresh_prof # <<>> => p = fresh_prof[1]
                /\ fan_speed' = new_speed(fan_speed,
                        calc_target_fan_speed(p, buffer_min(temp_history')))
                /\ fan_speed' # fan_speed
                        => (fan_wr' # <<>> /\ fan_wr'[2] = fan_speed')
                /\ LET pl == calc_target_power_limit(p, get_latest(temp_history'))
                   IN  pow_wr' = IF previous_powerclamp # <<pl>> THEN <<pl>> ELSE <<>>
          ]_vars

\* the first tick after the swap to the second profile has run: it raised the
\* speed from 20 towards the target 22 of that profile and submitted the
\* power-limit write
C8_Witness ==
    /\ profile = 2
    /\ pc = "pwrite"
    /\ previous_powerclamp = <<>>
    /\ fan_wr = <<"tick", 21, TRUE>>
    /\ pow_wr # <<>>

\* C9: no device I/O failure terminates the controller.
C9_Original == pc # "panicked"

\* C10: the delay depends only on pressure = min(15, volatility + fan_diff/2):
\* the pressure is in 0..15, the delay is 2000 ms at pressure 0, 1733 ms at 1
\* and 234 ms at 15, two evaluations with equal pressure give the same delay
\* however the pressure came about, and a higher pressure gives a strictly
\* shorter delay.
C10_Cadence ==
    d_delay # 0 =>
        LET p == DocPressure(d_buf, d_fan_diff)
        IN  /\ p \in 0..15
            /\ p = 0 => d_delay = 2000
            /\ p = 1 => d_delay = 1733
            /\ p = 15 => d_delay = 234
            /\ d_prev # <<>> =>
                /\ d_prev[1] = p => d_prev[2] = d_delay
                /\ d_prev[1] < p => d_prev[2] > d_delay
                /\ d_prev[1] > p => d_prev[2] < d_delay

\* pressure 1 through the volatility term alone gave 1733 ms, after pressure 1
\* through the fan-diff term alone had given the same
C10_Witness ==
    /\ d_delay = 1733
    /\ d_fan_diff = 0
    /\ diff_to_min_in_history(d_buf) = 1
    /\ d_prev = <<1, 1733>>

----------------------------------------------------------------------------
\* a step taken under an override lease: the receipt of the message that
\* starts it, and every step until the lease expires or a write fails
LeaseStep == pc = "override" \/ pc' = "override"

\* C11: an active override lease excludes Normal ticks.  From the receipt of
\* an override message until the lease expires or a write failure ends it, no
\* sample is pushed into the temperature history, the cached fan speed is not
\* moved by a profile-driven step, no power-limit write is issued or completed,
\* and every fan-speed write is an override write of a requested override speed.
C11_LeaseExcludesTicks ==
    [][LeaseStep =>
          /\ temp_history' = temp_history
          /\ fan_speed' = fan_speed
          /\ pow_wr' = <<>>
          /\ fan_wr' # <<>> =>
                /\ fan_wr'[1] = "override"
                /\ fan_wr'[2] \in OverrideSpeeds]_vars

\* a lease that was refreshed on a closed channel: the override speed is on
\* the device, the cached speed is another one, a sample is in the history
C11_Witness ==
    /\ pc = "override"
    /\ override_closed
    /\ fan_wr = <<"override", speed, TRUE>>
    /\ hw_speed = speed
    /\ fan_speed # hw_speed
    /\ Len(temp_history) = HistoryLen

----------------------------------------------------------------------------
\* C12: every Normal tick pushes exactly one sample into the temperature
\* history: the value read from the device when the read succeeds, the
\* previous latest value of the buffer when the read fails; that value is
\* also the temperature the power limit of the tick is evaluated at.
C12_Original ==
    [][TickStep =>
          \E act_temp \in Temps \cup {get_latest(temp_history)} :
              /\ temp_history' = buffer_update(temp_history, act_temp)
              /\ pow_wr' # <<>> =>
                    pow_wr'[1] = calc_target_power_limit(profile, act_temp)]_vars

----------------------------------------------------------------------------
\* the receipt of a profile message, as far as the history variables show it
ProfileStep == fresh_prof' # <<>> /\ fresh_prof' # fresh_prof

\* C13: receiving a profile message leaves the cached fan speed and the
\* temperature history unchanged and writes nothing to the device; it resets
\* the last-written power-limit tracking of the tick routine, whatever it was,
\* so the first tick after the swap submits exactly one power-limit write,
\* whether or not the value was written before the swap.
C13_SwapFrame ==
    /\ [][ProfileStep =>
            /\ fan_speed' = fan_speed
            /\ temp_history' = temp_history
            /\ hw_speed' = hw_speed
            /\ fan_wr' = <<>> /\ pow_wr' = <<>>
            /\ previous_powerclamp' = <<>>]_vars
    /\ [][(TickStep /\ fresh_prof # <<>>) =>
            /\ previous_powerclamp = <<>>
            /\ pc' = "pwrite"
            /\ pow_wr' = <<calc_target_power_limit(profile,
                                get_latest(temp_history'))>>]_vars

\* the controller had settled on the target 22 of the second profile; the
\* profile message was received again and the first tick after it submitted
\* the power limit 0 anew without touching the fan
C13_Witness ==
    /\ profile = 2
    /\ pc = "pwrite"
    /\ previous_powerclamp = <<>>
    /\ fan_speed = 22 /\ hw_speed = 22
    /\ last_written = <<22>>
    /\ fan_wr = <<>>
    /\ pow_wr = <<0>>

----------------------------------------------------------------------------
\* the completion of a power-limit write that failed
PowerWriteFailed == Len(pow_wr') = 2 /\ ~pow_wr'[2]

\* C14: within one run of the tick routine a tick submits the power limit of
\* the raw temperature of that tick if and only if it differs from the value
\* the routine holds as previously written, and a write that failed does not
\* count as written: it leaves that value as it was, so that the next tick
\* attempts the write again.
C14_Original ==
    /\ [][TickStep =>
            LET pl == calc_target_power_limit(profile, get_latest(temp_history'))
            IN  (pow_wr' # <<>>) <=> (previous_powerclamp # <<pl>>)]_vars
    /\ [][PowerWriteFailed => previous_powerclamp' = previous_powerclamp]_vars

----------------------------------------------------------------------------
(* The smoothed temperature: the head of a tick, runtime.rs:44-47, on its   *)
(* own, fed with readings, together with a record of how many readings      *)
(* above the temperature T the window once held alone came in a row         *)

\* every sample of the window is the same
Uniform(buf) == \A i \in 1..Len(buf) : buf[i] = buf[1]

InitSmooth ==
    /\ Parked
    /\ IdleRamp
    /\ IdleDelay
    /\ s_profile \in ProfileIds
    /\ \E t \in SmoothTemps, n \in 1..HistoryLen :
          /\ s_buf = [i \in 1..n |-> t]
          /\ s_base = <<t>>
    /\ s_read = <<>>
    /\ s_target = <<>>
    /\ s_run = 0

\* runtime.rs:44-47: update_temp, the minimum of the history and the target
\* evaluated at it
SmoothTick(read_ok, temp) ==
    LET hist == update_temp(s_buf, read_ok, temp)[1]
        current_temp == buffer_min(hist)
        target_fan_speed == calc_target_fan_speed(s_profile, current_temp)
        above == read_ok /\ s_base # <<>> /\ temp > s_base[1]
        filled == above /\ s_run + 1 >= HistoryLen
    IN  /\ s_buf' = hist
        /\ s_target' = <<target_fan_speed>>
        /\ s_read' = IF read_ok THEN <<temp>> ELSE <<>>
        /\ s_run' = IF ~read_ok THEN s_run
                    ELSE IF above /\ ~filled THEN s_run + 1 ELSE 0
        /\ s_base' = IF ~read_ok THEN s_base
                     ELSE IF s_base # <<>> /\ temp <= s_base[1] THEN <<temp>>
                     ELSE IF above /\ ~filled THEN s_base
                     ELSE IF Uniform(hist) THEN <<temp>> ELSE <<>>
        /\ UNCHANGED s_profile
        /\ UNCHANGED <<ctlVars, envVars, sendVars, obsVars, rampVars, delayVars>>

NextSmooth ==
    \E read_ok \in BOOLEAN, temp \in SmoothTemps : SmoothTick(read_ok, temp)

SpecSmooth == InitSmooth /\ [][NextSmooth]_vars

\* C15: with a monotonically non-decreasing profile and a window that held
\* only readings at T, the target of every tick stays the profile's value at T
\* as long as fewer than HistoryLen readings above T come in a row, whatever
\* the readings at T in between; it rises only once the readings above T have
\* filled the window.  A reading below the minimum of the window takes effect
\* on the tick that samples it: the target of that tick is the profile's value
\* at that reading, never above the target before.
C15_MinSmoothing ==
    /\ [](s_base # <<>> /\ s_target # <<>>
            => s_target[1] = calc_target_fan_speed(s_profile, s_base[1]))
    /\ [][(s_target # <<>> /\ s_target'[1] > s_target[1])
            => (s_read' # <<>> /\ \A i \in 1..Len(s_buf') : s_buf'[i] > buffer_min(s_buf)
                /\ Len(s_buf') = HistoryLen)]_vars
    /\ [][(s_read' # <<>> /\ s_buf' # s_buf /\ s_read'[1] < buffer_min(s_buf))
            => /\ s_target' = <<calc_target_fan_speed(s_profile, s_read'[1])>>
               /\ s_target # <<>> => s_target'[1] <= s_target[1]]_vars

\* a spike of one reading at 70 in a window at 40, and 40 again: the target
\* of the tick is still 20, the first profile's value at 40
C15_Witness ==
    /\ s_profile = 1
    /\ s_base = <<40>>
    /\ s_buf = [i \in 1..HistoryLen |-> IF i = HistoryLen - 1 THEN 70 ELSE 40]
    /\ s_read = <<40>>
    /\ s_target = <<20>>

----------------------------------------------------------------------------
\* an override write that failed
OverrideWriteFailed == fan_wr' # <<>> /\ fan_wr'[1] = "override" /\ ~fan_wr'[3]

\* C16: a failed device write of the override speed ends the lease at once,
\* without waiting for the lease window: the controller is back at the start
\* of the tick routine with nothing of the lease left.  Outside a lease an
\* override write is only made on the receipt of a new override message at an
\* await of the tick routine, and a tick makes none.
C16_FailureEndsLease ==
    /\ [][(pc = "override" /\ OverrideWriteFailed) =>
            /\ pc' = "open"
            /\ speed' = 0 /\ lease_elapsed' = 0
            /\ hw_speed' = hw_speed]_vars
    /\ [][(pc # "override" /\ fan_wr' # <<>> /\ fan_wr'[1] = "override") =>
            (InControlLoop /\ ~override_closed /\ since_override' = 0)]_vars
    /\ [][TickStep => (fan_wr' = <<>> \/ fan_wr'[1] = "tick")]_vars

\* the write of a lease on a closed channel has failed: the lease is over
\* before its window has elapsed and the tick routine starts anew
C16_Witness ==
    /\ pc = "open"
    /\ override_closed
    /\ fan_wr # <<>> /\ fan_wr[1] = "override" /\ ~fan_wr[3]
    /\ speed = 0
    /\ hw_speed \in OverrideSpeeds

----------------------------------------------------------------------------
\* C17: when the target is below 50 and exceeds the current speed by 3
\* percentage points or less, a tick does not increase the fan speed.
C17_Original ==
    (ramp_ticks > 0 /\ ramp_tgt < 50 /\ ramp_tgt > ramp_prev
        /\ ramp_tgt - ramp_prev <= 3)
    => ramp_cur <= ramp_prev

\* C18: the target is a fixed point of the tick: a tick with the current
\* speed equal to the target leaves the speed where it is (and so issues no
\* write: set_speed writes when the speed changes).
C18_Original ==
    (ramp_ticks > 0 /\ ramp_prev = ramp_tgt) => ramp_cur = ramp_prev

\* C19: a tick never moves the speed past the target: with the target above
\* the current speed the new speed is at most the target, with the target
\* below the current speed the new speed is at least the target.
C19_NoOvershoot ==
    ramp_ticks > 0 =>
        /\ ramp_tgt > ramp_prev => ramp_cur <= ramp_tgt
        /\ ramp_tgt < ramp_prev => ramp_cur >= ramp_tgt

\* a tick from 51 towards 50 has run: it came down by the 1 that was left and
\* stopped at the target
C19_Witness ==
    ramp_ticks > 0 /\ ramp_prev = 51 /\ ramp_tgt = 50 /\ ramp_cur = ramp_tgt

----------------------------------------------------------------------------
(* A run with a quiet environment: the temperature read is always the one   *)
(* the history was seeded with, every read and write succeeds, the profile  *)
(* stays, nothing suspends, and the senders of the override channel send    *)
(* MaxOverrideMsgs messages at most.  The controller task is always         *)
(* scheduled, its timers elapse and its writes complete.                    *)

InitSettle == InitRun /\ \E n \in 1..MaxOverrideMsgs : override_left = <<n>>

\* a tick that reads the same temperature again, all device calls succeeding
SteadyTick == Tick(TRUE, get_latest(temp_history), TRUE)

NextSettle ==
    \/ OpenOk
    \/ SteadyTick
    \/ PowerWriteDone(TRUE)
    \/ SleepElapsed
    \/ \E s \in OverrideSpeeds : RecvOverride(s, TRUE)
    \/ \E s \in OverrideSpeeds : LeaseRefresh(s, TRUE)
    \/ LeaseAdvance
    \/ LeaseExpire

SpecSettle ==
    /\ InitSettle
    /\ [][NextSettle]_vars
    /\ WF_vars(OpenOk)
    /\ WF_vars(SteadyTick)
    /\ WF_vars(PowerWriteDone(TRUE))
    /\ WF_vars(SleepElapsed)
    /\ WF_vars(LeaseAdvance)
    /\ WF_vars(LeaseExpire)

\* the lease of the last override message is over
LeasesOver == override_left = <<0>> /\ pc # "override"

\* C20: once the lease of the last override message has expired, with the
\* temperature and the profile constant and every device write succeeding,
\* the speed of the device eventually equals the cached fan speed again.
C20_Original == LeasesOver ~> (hw_speed = fan_speed)

====
